---- MODULE Spec2Model ----
(***************************************************************************)
(* Model of the semantic core of haku:                                     *)
(*   src/src/feature.rs       - the platform/feature predicate evaluator   *)
(*   src/hakufile/src/func.rs - the registry of built-in functions         *)
(*                                                                         *)
(* A string is a sequence of characters; a character is a one-element      *)
(* token ("a", "A", "+", ...).  Two tokens stand for non-ASCII characters: *)
(* "wide" is a double-width character (e.g. a CJK ideograph) and "comb" is *)
(* a zero-width combining mark.                                            *)
(***************************************************************************)
EXTENDS Integers, Sequences, FiniteSets, TLC

VARIABLES
    feats,      \* feature.rs: the `feats` accumulator shared by all calls
    opts,       \* feature.rs: opts.feats, the enabled features of the call
    p,          \* feature.rs: the clauses handed to process_feature
    idx,        \* position of the `for ss in p` loop (next clause to visit)
    ok,         \* process_feature: local `ok`
    pass,       \* process_feature: local `pass` of the clause visited last
    pc,         \* "idle" | "loop" | "done"
    ret,        \* value returned by process_feature
    fs,         \* func.rs: the file system the path predicates read
    name,       \* func.rs: run_func argument `name`
    args,       \* func.rs: run_func argument `args`
    fres        \* func.rs: what run_func produced

vars == <<feats, opts, p, idx, ok, pass, pc, ret, fs, name, args, fres>>
evalVars == <<feats, opts, p, idx, ok, pass, pc, ret>>
funcVars == <<fs, name, args, fres>>

(***************************************************************************)
(* Bounds of the model.                                                    *)
(***************************************************************************)
MaxClauses == 2     \* clauses in one directive
MaxVals == 2        \* values in one clause
MaxCarry == 2       \* a further call starts only while Len(feats) <= MaxCarry
MaxArgs == 2        \* arguments of a path predicate
MaxWidth == 10      \* largest target width of a padding call
MaxNeg == 3         \* target widths start at -MaxNeg
UsizeBits == 8      \* bits of usize in the model (64 or 32 in a build)
HeapMax == 30       \* bytes an allocation can get; any more and the process aborts

(***************************************************************************)
(* Strings.                                                                *)
(***************************************************************************)
UpperChars == <<"A","B","C","D","E","F","G","H","I","J","K","L","M",
                "N","O","P","Q","R","S","T","U","V","W","X","Y","Z">>
LowerChars == <<"a","b","c","d","e","f","g","h","i","j","k","l","m",
                "n","o","p","q","r","s","t","u","v","w","x","y","z">>

\* char::to_lowercase on the alphabet of the model
LowerChar(c) ==
    IF \E i \in 1..Len(UpperChars) : UpperChars[i] = c
    THEN LowerChars[CHOOSE i \in 1..Len(UpperChars) : UpperChars[i] = c]
    ELSE c

\* char::to_uppercase on the alphabet of the model
UpperChar(c) ==
    IF \E i \in 1..Len(LowerChars) : LowerChars[i] = c
    THEN UpperChars[CHOOSE i \in 1..Len(LowerChars) : LowerChars[i] = c]
    ELSE c

\* str::to_uppercase
to_uppercase(s) == [i \in 1..Len(s) |-> UpperChar(s[i])]

\* str::to_lowercase
to_lowercase(s) == [i \in 1..Len(s) |-> LowerChar(s[i])]

Range(s) == {s[i] : i \in 1..Len(s)}

\* all sequences over S of length lo..hi
SeqsOf(S, lo, hi) == UNION {[1..n -> S] : n \in lo..hi}

\* the paths the model's file system knows, and what a path can name
Paths == { <<"f">>, <<"d">> }
Kinds == { "none", "file", "dir", "other" }

(***************************************************************************)
(* Platform facts: the constants of the `target` crate for the build.      *)
(***************************************************************************)
os == <<"l","i","n","u","x">>
os_family == <<"u","n","i","x">>
pointer_width == <<"6","4">>
arch == <<"x","8","6","_","6","4">>
endian == <<"l","i","t","t","l","e">>

(***************************************************************************)
(* Results.                                                                *)
(***************************************************************************)
None == [tag |-> "None"]
OkBool(b) == [tag |-> "Ok", val |-> b]
\* Err(String): `msg` is the format string, `arg` the text put in its {}
Err(m, a) == [tag |-> "Err", msg |-> m, arg |-> a]

(***************************************************************************)
(* feature.rs                                                              *)
(***************************************************************************)
RECURSIVE ValFound(_, _, _)
\* check_feature_val, the loop: is `val` among the lowercased values from k on
ValFound(val, fv, k) ==
    IF k > Len(fv) THEN FALSE
    ELSE IF val = to_lowercase(fv[k]) THEN TRUE
    ELSE ValFound(val, fv, k + 1)

\* a slip: the clause values are compared as written
check_feature_val_exact(val, fv, neg) ==
    LET found == \E k \in 1..Len(fv) : val = fv[k]
    IN  IF neg THEN ~found ELSE found

check_feature_val(val, fv, neg) ==
    LET found == ValFound(val, fv, 1)
    IN  IF neg THEN ~found ELSE found

RECURSIVE PushAll_dedup(_, _, _)
\* a slip: a name already collected is not collected again
PushAll_dedup(fv, k, acc) ==
    IF k > Len(fv) THEN acc
    ELSE IF \E i \in 1..Len(acc) : acc[i] = to_lowercase(fv[k]) THEN PushAll_dedup(fv, k + 1, acc)
    ELSE PushAll_dedup(fv, k + 1, Append(acc, to_lowercase(fv[k])))

RECURSIVE PushAll(_, _, _)
\* check_feature_list, first loop: push every lowercased value
PushAll(fv, k, acc) ==
    IF k > Len(fv) THEN acc
    ELSE PushAll(fv, k + 1, Append(acc, to_lowercase(fv[k])))

RECURSIVE InVals(_, _, _)
\* check_feature_list, inner loop over the enabled features
InVals(val_low, vals, j) ==
    IF j > Len(vals) THEN FALSE
    ELSE IF to_lowercase(vals[j]) = val_low THEN TRUE
    ELSE InVals(val_low, vals, j + 1)

RECURSIVE ListFound(_, _, _)
\* check_feature_list, outer loop over the clause values
ListFound(vals, fv, k) ==
    IF k > Len(fv) THEN FALSE
    ELSE IF InVals(to_lowercase(fv[k]), vals, 1) THEN TRUE
    ELSE ListFound(vals, fv, k + 1)

\* a slip: the values are recorded only after the test for no enabled feature
check_feature_list_late(vals, fv, neg, fts) ==
    LET found == ListFound(vals, fv, 1)
    IN  IF vals = <<>> THEN [res |-> FALSE, feats |-> fts]
        ELSE [res |-> IF neg THEN ~found ELSE found, feats |-> PushAll(fv, 1, fts)]

\* a slip: the negation is applied also when no feature is enabled
check_feature_list_neg(vals, fv, neg, fts) ==
    LET found == vals # <<>> /\ ListFound(vals, fv, 1)
    IN  [res |-> IF neg THEN ~found ELSE found, feats |-> PushAll(fv, 1, fts)]

\* a slip: the enabled features are compared as written
check_feature_list_exact(vals, fv, neg, fts) ==
    LET found == \E k \in 1..Len(fv) : \E j \in 1..Len(vals) : vals[j] = to_lowercase(fv[k])
    IN  IF vals = <<>> THEN [res |-> FALSE, feats |-> PushAll(fv, 1, fts)]
        ELSE [res |-> IF neg THEN ~found ELSE found, feats |-> PushAll(fv, 1, fts)]

\* check_feature_list: the result and the accumulator after the call
check_feature_list(vals, fv, neg, fts) ==
    LET pushed == PushAll(fv, 1, fts)
        found == ListFound(vals, fv, 1)
    IN  IF vals = <<>> THEN [res |-> FALSE, feats |-> pushed]
        ELSE [res |-> IF neg THEN ~found ELSE found, feats |-> pushed]

\* a slip: a key that is not known counts as a clause that is false
MatchClause_lenient(ss, enabled, fts) ==
    LET n == to_lowercase(ss.feature_name)
    IN  IF n = <<"f","e","a","t","u","r","e">> \/ n = <<"f","e","a","t">>
        THEN LET r == check_feature_list(enabled, ss.feature_val, ss.not_op, fts)
             IN  [kind |-> "pass", res |-> r.res, feats |-> r.feats]
        ELSE [kind |-> "pass", res |-> FALSE, feats |-> fts]

\* the match on f_name of process_feature: one clause
\* kind is "pass" (with res and feats) or "err" (with the name)
MatchClause(ss, enabled, fts) ==
    LET inverse == ss.not_op
        f_name == to_lowercase(ss.feature_name)
        fv == ss.feature_val
    IN  CASE f_name = <<"o","s">> ->
                [kind |-> "pass", res |-> check_feature_val(os, fv, inverse), feats |-> fts]
          [] f_name = <<"b","i","t">> ->
                [kind |-> "pass", res |-> check_feature_val(pointer_width, fv, inverse), feats |-> fts]
          [] f_name = <<"f","a","m","i","l","y">> \/ f_name = <<"p","l","a","t","f","o","r","m">> ->
                [kind |-> "pass", res |-> check_feature_val(os_family, fv, inverse), feats |-> fts]
          [] f_name = <<"a","r","c","h">> ->
                [kind |-> "pass", res |-> check_feature_val(arch, fv, inverse), feats |-> fts]
          [] f_name = <<"e","n","d","i","a","n">> ->
                [kind |-> "pass", res |-> check_feature_val(endian, fv, inverse), feats |-> fts]
          [] f_name = <<"f","e","a","t","u","r","e">> \/ f_name = <<"f","e","a","t">> ->
                LET r == check_feature_list(enabled, fv, inverse, fts)
                IN  [kind |-> "pass", res |-> r.res, feats |-> r.feats]
          [] OTHER ->
                [kind |-> "err", res |-> FALSE, feats |-> fts, name |-> f_name]

(***************************************************************************)
(* Inputs of the evaluator.                                                *)
(***************************************************************************)
PlatformKeys == { <<"o","s">>, <<"B","i","t">>, <<"f","a","m","i","l","y">>,
                  <<"p","l","a","t","f","o","r","m">>, <<"A","R","C","H">>,
                  <<"e","n","d","i","a","n">> }
FeatureKeys == { <<"f","e","a","t","u","r","e">>, <<"F","e","a","t">> }
UnknownKeys == { <<"C","p","u">> }

\* the fact a platform key reads, spelt with a capital, and a value that is no fact
FactOf(k) ==
    LET n == to_lowercase(k)
    IN  CASE n = <<"o","s">> -> <<"L","i","n","u","x">>
          [] n = <<"b","i","t">> -> <<"6","4">>
          [] n = <<"a","r","c","h">> -> <<"X","8","6","_","6","4">>
          [] n = <<"e","n","d","i","a","n">> -> <<"l","i","t","t","L","E">>
          [] OTHER -> <<"U","n","i","x">>
\* the value lists of a clause: 1..MaxVals values, all `other` but at most one `hit`
ValueLists(hit, other) ==
    UNION { { [j \in 1..n |-> other] } \cup { [j \in 1..n |-> IF j = k THEN hit ELSE other] : k \in 1..n } :
            n \in 1..MaxVals }

EnabledLists == { <<>>, << <<"X">> >>, << <<"y">>, <<"x">> >> }

Clauses ==
    UNION { [not_op : BOOLEAN, feature_name : {k},
             feature_val : ValueLists(FactOf(k), <<"x">>)] : k \in PlatformKeys }
    \cup [not_op : BOOLEAN, feature_name : FeatureKeys,
          feature_val : ValueLists(<<"X">>, <<"z">>)]
    \cup [not_op : BOOLEAN, feature_name : UnknownKeys, feature_val : {<<<<"z">>>>}]

\* four clauses to stand around any other: a platform clause that is true, one that is
\* false, a feature clause, a clause with an unknown key
Around ==
    { [not_op |-> FALSE, feature_name |-> <<"o","s">>, feature_val |-> <<<<"L","i","n","u","x">>>>],
      [not_op |-> TRUE, feature_name |-> <<"f","a","m","i","l","y">>,
       feature_val |-> <<<<"U","n","i","x">>>>],
      [not_op |-> FALSE, feature_name |-> <<"f","e","a","t","u","r","e">>,
       feature_val |-> <<<<"z">>, <<"X">>>>],
      [not_op |-> FALSE, feature_name |-> <<"C","p","u">>, feature_val |-> <<<<"z">>>>] }

\* the directives of a first call: up to MaxClauses clauses, any clause at one place
\* and clauses of Around at the others
ClauseLists ==
    { <<>> } \cup
    UNION { { [c EXCEPT ![k] = x] : c \in [1..n -> Around], k \in 1..n, x \in Clauses } :
            n \in 1..MaxClauses }

\* the directives of a call that finds `feats` filled
CarryLists == SeqsOf(Around, 0, MaxClauses)

(***************************************************************************)
(* The evaluator as a state machine.                                       *)
(***************************************************************************)
Init ==
    /\ feats = <<>>
    /\ opts = <<>>
    /\ p = <<>>
    /\ idx = 1
    /\ ok = TRUE
    /\ pass = TRUE
    /\ pc = "idle"
    /\ ret = None
    /\ fs = [s \in Paths |-> "none"]
    /\ name = <<>>
    /\ args = <<>>
    /\ fres = None

\* process_feature(p, opts, feats) starts: `let mut ok = true`, then the loop
Enter(clauses, enabled) ==
    /\ p' = clauses
    /\ opts' = enabled
    /\ idx' = 1
    /\ ok' = TRUE
    /\ pc' = "loop"
    /\ ret' = None
    /\ UNCHANGED <<feats, pass>>

\* the first call of a pass over the script: nothing is collected yet
Call ==
    /\ pc = "idle"
    /\ feats = <<>>
    /\ \E clauses \in ClauseLists, enabled \in EnabledLists : Enter(clauses, enabled)

\* a further call of the pass, with the names collected so far
CallAgain ==
    /\ pc = "idle"
    /\ feats # <<>>
    /\ Len(feats) <= MaxCarry
    /\ \E clauses \in CarryLists, enabled \in EnabledLists : Enter(clauses, enabled)

\* a slip: the loop as with the early return that feature.rs has as a comment
Clause_short ==
    /\ pc = "loop"
    /\ idx <= Len(p)
    /\ LET m == MatchClause(p[idx], opts, feats)
       IN  IF m.kind = "err"
           THEN /\ ret' = Err("{}", m.name)
                /\ pc' = "done"
                /\ UNCHANGED <<feats, idx, ok, pass>>
           ELSE IF ~(ok /\ m.res)
           THEN /\ ret' = OkBool(FALSE)
                /\ pc' = "done"
                /\ pass' = m.res
                /\ ok' = FALSE
                /\ feats' = m.feats
                /\ UNCHANGED idx
           ELSE /\ pass' = m.res
                /\ ok' = (ok /\ m.res)
                /\ feats' = m.feats
                /\ idx' = idx + 1
                /\ UNCHANGED <<pc, ret>>
    /\ UNCHANGED <<opts, p>>

\* one turn of `for ss in p`
Clause ==
    /\ pc = "loop"
    /\ idx <= Len(p)
    /\ LET m == MatchClause(p[idx], opts, feats)
       IN  IF m.kind = "err"
           THEN /\ ret' = Err("{}", m.name)
                /\ pc' = "done"
                /\ UNCHANGED <<feats, idx, ok, pass>>
           ELSE /\ pass' = m.res
                /\ ok' = (ok /\ m.res)
                /\ feats' = m.feats
                /\ idx' = idx + 1
                /\ UNCHANGED <<pc, ret>>
    /\ UNCHANGED <<opts, p>>

\* the loop is over: Ok(ok)
Return ==
    /\ pc = "loop"
    /\ idx > Len(p)
    /\ ret' = OkBool(ok)
    /\ pc' = "done"
    /\ UNCHANGED <<feats, opts, p, idx, ok, pass>>

\* the caller has taken the result: the frame of the call is gone, `feats` stays
Drop ==
    /\ pc = "done"
    /\ pc' = "idle"
    /\ p' = <<>>
    /\ opts' = <<>>
    /\ idx' = 1
    /\ ok' = TRUE
    /\ pass' = TRUE
    /\ ret' = None
    /\ UNCHANGED feats

Next ==
    \/ Call /\ UNCHANGED funcVars
    \/ CallAgain /\ UNCHANGED funcVars
    \/ Clause /\ UNCHANGED funcVars
    \/ Return /\ UNCHANGED funcVars
    \/ Drop /\ UNCHANGED funcVars

Spec == Init /\ [][Next]_vars

(***************************************************************************)
(* func.rs: values, widths, the machine's integers.                        *)
(***************************************************************************)
\* VarValue::Str and VarValue::Int
StrV(s) == [tag |-> "Str", s |-> s]
IntV(i) == [tag |-> "Int", i |-> i]

\* FuncResult: Ok(VarValue); Err is as above; a panic or an abort returns nothing
Ok(v) == [tag |-> "Ok", val |-> v]
Panic(m) == [tag |-> "Panic", msg |-> m]
Abort(m) == [tag |-> "Abort", msg |-> m]

DigitChars == <<"0","1","2","3","4","5","6","7","8","9">>
IsDigit(c) == \E d \in 1..10 : DigitChars[d] = c
DigitVal(c) == (CHOOSE d \in 1..10 : DigitChars[d] = c) - 1

RECURSIVE NatStr(_)
NatStr(n) ==
    IF n < 10 THEN <<DigitChars[n + 1]>>
    ELSE Append(NatStr(n \div 10), DigitChars[(n % 10) + 1])

RECURSIVE NatVal(_, _, _)
NatVal(s, k, acc) ==
    IF k > Len(s) THEN acc ELSE NatVal(s, k + 1, 10 * acc + DigitVal(s[k]))

\* VarValue::to_string: the text of a value
to_string(v) ==
    IF v.tag = "Str" THEN v.s
    ELSE IF v.i < 0 THEN <<"-">> \o NatStr(-v.i) ELSE NatStr(v.i)

\* VarValue::to_int: the integer of a value; a text that is no number is 0
to_int(v) ==
    IF v.tag = "Int" THEN v.i
    ELSE LET s == v.s
             neg == s # <<>> /\ s[1] = "-"
             d == IF neg THEN Tail(s) ELSE s
         IN  IF d # <<>> /\ \A k \in 1..Len(d) : IsDigit(d[k])
             THEN IF neg THEN -NatVal(d, 1, 0) ELSE NatVal(d, 1, 0)
             ELSE 0

\* UnicodeWidthStr::width: the columns of a character and of a string
CharWidth(c) == CASE c = "wide" -> 2 [] c = "comb" -> 0 [] OTHER -> 1
RECURSIVE width(_)
width(s) == IF s = <<>> THEN 0 ELSE CharWidth(Head(s)) + width(Tail(s))

\* str::len: the bytes of a character and of a string (UTF-8)
CharBytes(c) == CASE c = "wide" -> 3 [] c = "comb" -> 2 [] OTHER -> 1
RECURSIVE ByteLen(_)
ByteLen(s) == IF s = <<>> THEN 0 ELSE CharBytes(Head(s)) + ByteLen(Tail(s))

UsizeMod == 2 ^ UsizeBits
IsizeMax == 2 ^ (UsizeBits - 1) - 1
\* `as usize` of a signed integer
AsUsize(i) == i % UsizeMod

\* str::repeat, when it returns
RECURSIVE repeat(_, _)
repeat(s, n) == IF n = 0 THEN <<>> ELSE s \o repeat(s, n - 1)

\* how str::repeat(s, n) ends: "ok", or without a value
RepeatEnd(s, n) ==
    IF ByteLen(s) * n > IsizeMax THEN "capacity overflow"
    ELSE IF ByteLen(s) * n > HeapMax THEN "memory allocation failed"
    ELSE "ok"

(***************************************************************************)
(* func.rs: the built-in functions.                                        *)
(***************************************************************************)
\* Path::is_file, Path::is_dir, Path::exists on what the path names
PathKind(f, s) == IF s \in DOMAIN f THEN f[s] ELSE "none"
CheckPath(tp, kind) ==
    CASE tp = "IsFile" -> kind = "file"
      [] tp = "IsDir" -> kind = "dir"
      [] tp = "Exists" -> kind # "none"

RECURSIVE AllAreFrom(_, _, _, _)
\* all_are, the loop
AllAreFrom(a, tp, f, k) ==
    IF k > Len(a) THEN Ok(IntV(1))
    ELSE IF ~CheckPath(tp, PathKind(f, to_string(a[k]))) THEN Ok(IntV(0))
    ELSE AllAreFrom(a, tp, f, k + 1)

\* a slip: no argument counts as "all of them"
all_are_vacuous(a, tp, f) == AllAreFrom(a, tp, f, 1)

all_are(a, tp, f) ==
    IF a = <<>> THEN Ok(IntV(0)) ELSE AllAreFrom(a, tp, f, 1)

\* a slip: centering gives the odd token to the right
PadBody_right_heavy(a, loc) ==
    LET patt == to_string(a[2])
        l == AsUsize(to_int(a[3]))
        s == to_string(a[1])
        cnt == (l - width(s)) \div width(patt)
        left == cnt \div 2
        right == cnt - left
    IN  IF width(s) + width(patt) >= l THEN Ok(StrV(s))
        ELSE IF ByteLen(patt) * cnt > IsizeMax THEN Panic("capacity overflow")
        ELSE IF ByteLen(patt) * cnt + ByteLen(s) > HeapMax THEN Abort("memory allocation failed")
        ELSE CASE loc = "All" -> Ok(StrV(repeat(patt, left) \o s \o repeat(patt, right)))
               [] loc = "Left" -> Ok(StrV(repeat(patt, cnt) \o s))
               [] loc = "Right" -> Ok(StrV(s \o repeat(patt, cnt)))

\* pad, from `let l = ...` on: the token has a width
PadBody(a, loc) ==
    LET patt == to_string(a[2])
        patt_width == width(patt)
        l == AsUsize(to_int(a[3]))
        s == to_string(a[1])
        orig_width == width(s)
        cnt == (l - orig_width) \div patt_width
        right == cnt \div 2
        left == cnt - right
    IN  IF orig_width + patt_width >= l THEN Ok(StrV(s))
        ELSE CASE loc = "All" ->
                    IF RepeatEnd(patt, left) = "capacity overflow" THEN Panic("capacity overflow")
                    ELSE IF RepeatEnd(patt, left) # "ok" THEN Abort(RepeatEnd(patt, left))
                    ELSE IF ByteLen(patt) * left + ByteLen(s) + ByteLen(patt) * right > HeapMax
                         THEN Abort("memory allocation failed")
                    ELSE Ok(StrV(repeat(patt, left) \o s \o repeat(patt, right)))
               [] loc = "Left" ->
                    IF RepeatEnd(patt, cnt) = "capacity overflow" THEN Panic("capacity overflow")
                    ELSE IF ByteLen(patt) * cnt + ByteLen(s) > HeapMax
                         THEN Abort("memory allocation failed")
                    ELSE Ok(StrV(repeat(patt, cnt) \o s))
               [] loc = "Right" ->
                    IF RepeatEnd(patt, cnt) = "capacity overflow" THEN Panic("capacity overflow")
                    ELSE IF ByteLen(patt) * cnt + ByteLen(s) > HeapMax
                         THEN Abort("memory allocation failed")
                    ELSE Ok(StrV(s \o repeat(patt, cnt)))

\* a slip: the token is tested with is_empty, not by its width
pad_is_empty(a, loc) ==
    IF Len(a) < 3 THEN Err("requires three arguments", <<>>)
    ELSE IF to_string(a[2]) = <<>> THEN Err("pad string cannot be empty", <<>>)
    ELSE IF width(to_string(a[2])) # 0 THEN PadBody(a, loc)
    ELSE IF width(to_string(a[1])) >= AsUsize(to_int(a[3])) THEN Ok(StrV(to_string(a[1])))
    ELSE Panic("attempt to divide by zero")

pad(a, loc) ==
    IF Len(a) < 3 THEN Err("requires three arguments", <<>>)
    ELSE IF width(to_string(a[2])) = 0 THEN Err("pad string cannot be empty", <<>>)
    ELSE PadBody(a, loc)

(***************************************************************************)
(* Paths as text: components separated by "/" (std::path on this build).   *)
(***************************************************************************)
\* Path::is_absolute
is_absolute(s) == Len(s) > 0 /\ s[1] = "/"

\* the text of a path up to its last component: trailing separators and
\* trailing "." components do not count, the root stays
RECURSIVE TrimRight(_)
TrimRight(s) ==
    IF Len(s) >= 2 /\ s[Len(s)] = "/" THEN TrimRight(SubSeq(s, 1, Len(s) - 1))
    ELSE IF Len(s) >= 2 /\ s[Len(s)] = "." /\ s[Len(s) - 1] = "/" THEN TrimRight(SubSeq(s, 1, Len(s) - 1))
    ELSE s

\* where the last component of a trimmed path begins
NameStart(t) ==
    IF \E i \in 1..Len(t) : t[i] = "/"
    THEN 1 + CHOOSE i \in 1..Len(t) : t[i] = "/" /\ \A j \in (i + 1)..Len(t) : t[j] # "/"
    ELSE 1

\* Path::file_name: the last component when it is a normal one
file_name(s) ==
    LET t == TrimRight(s)
        c == SubSeq(t, NameStart(t), Len(t))
    IN  IF c \in { <<>>, <<".">>, <<".",".">> } THEN None ELSE Ok(StrV(c))

\* PathBuf::pop, for a path with a file name: truncate to the parent
pop(s) == LET t == TrimRight(s) IN TrimRight(SubSeq(t, 1, NameStart(t) - 1))

\* PathBuf::push
push(buf, path) ==
    IF is_absolute(path) THEN path
    ELSE IF buf # <<>> /\ buf[Len(buf)] # "/" THEN buf \o <<"/">> \o path
    ELSE buf \o path

\* PathBuf::set_file_name
set_file_name(buf, new_name) ==
    IF file_name(buf) # None THEN push(pop(buf), new_name) ELSE push(buf, new_name)

\* a slip: the new name is joined to the path, the old name stays
replace_name_join(a) ==
    IF Len(a) = 0 THEN Err("path undefined", <<>>)
    ELSE IF Len(a) = 1 THEN Err("new name undefined", <<>>)
    ELSE Ok(StrV(push(to_string(a[1]), to_string(a[2]))))

replace_name(a) ==
    IF Len(a) = 0 THEN Err("path undefined", <<>>)
    ELSE IF Len(a) = 1 THEN Err("new name undefined", <<>>)
    ELSE Ok(StrV(set_file_name(to_string(a[1]), to_string(a[2]))))

\* str::starts_with and str::ends_with, on a text pattern
str_starts_with(s, what) == Len(what) <= Len(s) /\ SubSeq(s, 1, Len(what)) = what
str_ends_with(s, what) == Len(what) <= Len(s) /\ SubSeq(s, Len(s) - Len(what) + 1, Len(s)) = what

\* the loop of starts_with over args[1..], from the i-th argument on
RECURSIVE StartsFrom(_, _, _)
StartsFrom(s, a, i) ==
    IF i > Len(a) THEN Ok(IntV(0))
    ELSE IF str_starts_with(s, to_string(a[i])) THEN Ok(IntV(1))
    ELSE StartsFrom(s, a, i + 1)

\* the loop of ends_with over args[1..], from the i-th argument on
RECURSIVE EndsFrom(_, _, _)
EndsFrom(s, a, i) ==
    IF i > Len(a) THEN Ok(IntV(0))
    ELSE IF str_ends_with(s, to_string(a[i])) THEN Ok(IntV(1))
    ELSE EndsFrom(s, a, i + 1)

\* a slip: only the first candidate is tried
starts_with_first(a) ==
    IF Len(a) < 2 THEN Ok(IntV(1))
    ELSE IF str_starts_with(to_string(a[1]), to_string(a[2])) THEN Ok(IntV(1))
    ELSE Ok(IntV(0))

starts_with(a) ==
    IF Len(a) < 2 THEN Ok(IntV(1))
    ELSE StartsFrom(to_string(a[1]), a, 2)

ends_with(a) ==
    IF Len(a) < 2 THEN Ok(IntV(1))
    ELSE EndsFrom(to_string(a[1]), a, 2)

\* the arms of the match of run_func: the built-in a lowercased name selects
Builtin(n) ==
    CASE n = <<"o","s">> -> "os"
      [] n = <<"f","a","m","i","l","y">> -> "family"
      [] n = <<"b","i","t">> -> "bit"
      [] n = <<"a","r","c","h">> -> "arch"
      [] n = <<"e","n","d","i","a","n">> -> "endian"
      [] n = <<"i","s","_","f","i","l","e">> \/ n = <<"i","s","-","f","i","l","e">> \/ n = <<"i","s","f","i","l","e">> -> "is_file"
      [] n = <<"i","s","_","d","i","r">> \/ n = <<"i","s","-","d","i","r">> \/ n = <<"i","s","d","i","r">> -> "is_dir"
      [] n = <<"e","x","i","s","t","s">> -> "exists"
      [] n = <<"s","t","e","m">> -> "stem"
      [] n = <<"e","x","t">> -> "ext"
      [] n = <<"d","i","r">> -> "dir"
      [] n = <<"f","i","l","e","n","a","m","e">> -> "filename"
      [] n = <<"a","d","d","_","e","x","t">> \/ n = <<"a","d","d","-","e","x","t">> -> "add_ext"
      [] n = <<"w","i","t","h","_","e","x","t">> \/ n = <<"w","i","t","h","-","e","x","t">> -> "with_ext"
      [] n = <<"w","i","t","h","_","f","i","l","e","n","a","m","e">> \/ n = <<"w","i","t","h","-","f","i","l","e","n","a","m","e">> \/ n = <<"w","i","t","h","_","n","a","m","e">> \/ n = <<"w","i","t","h","-","n","a","m","e">> -> "with_filename"
      [] n = <<"w","i","t","h","_","s","t","e","m">> \/ n = <<"w","i","t","h","-","s","t","e","m">> -> "with_stem"
      [] n = <<"j","o","i","n">> -> "join"
      [] n = <<"t","e","m","p">> \/ n = <<"t","e","m","p","_","d","i","r">> \/ n = <<"t","e","m","p","-","d","i","r">> -> "temp"
      [] n = <<"h","o","m","e">> \/ n = <<"h","o","m","e","_","d","i","r">> \/ n = <<"h","o","m","e","-","d","i","r">> \/ n = <<"u","s","e","r","_","d","i","r">> \/ n = <<"u","s","e","r","-","d","i","r">> -> "home"
      [] n = <<"c","o","n","f","i","g">> \/ n = <<"c","o","n","f","i","g","_","d","i","r">> \/ n = <<"c","o","n","f","i","g","-","d","i","r">> -> "config"
      [] n = <<"d","o","c","u","m","e","n","t","s">> \/ n = <<"d","o","c","s","_","d","i","r">> \/ n = <<"d","o","c","s","-","d","i","r">> -> "documents"
      [] n = <<"p","r","i","n","t">> -> "print"
      [] n = <<"p","r","i","n","t","l","n">> -> "println"
      [] n = <<"t","i","m","e">> \/ n = <<"f","o","r","m","a","t","-","t","i","m","e">> \/ n = <<"f","o","r","m","a","t","_","t","i","m","e">> \/ n = <<"t","i","m","e","-","f","o","r","m","a","t">> \/ n = <<"t","i","m","e","_","f","o","r","m","a","t">> -> "time"
      [] n = <<"t","r","i","m">> -> "trim"
      [] n = <<"t","r","i","m","_","l","e","f","t">> \/ n = <<"t","r","i","m","-","l","e","f","t">> \/ n = <<"t","r","i","m","_","s","t","a","r","t">> \/ n = <<"t","r","i","m","-","s","t","a","r","t">> -> "trim_left"
      [] n = <<"t","r","i","m","_","r","i","g","h","t">> \/ n = <<"t","r","i","m","-","r","i","g","h","t">> \/ n = <<"t","r","i","m","_","e","n","d">> \/ n = <<"t","r","i","m","-","e","n","d">> -> "trim_right"
      [] n = <<"s","t","a","r","t","s","-","w","i","t","h">> \/ n = <<"s","t","a","r","t","s","_","w","i","t","h">> -> "starts_with"
      [] n = <<"e","n","d","s","-","w","i","t","h">> \/ n = <<"e","n","d","s","_","w","i","t","h">> -> "ends_with"
      [] n = <<"l","o","w","c","a","s","e">> -> "lowcase"
      [] n = <<"u","p","c","a","s","e">> -> "upcase"
      [] n = <<"c","o","n","t","a","i","n","s">> -> "contains"
      [] n = <<"r","e","p","l","a","c","e">> -> "replace"
      [] n = <<"m","a","t","c","h">> -> "match"
      [] n = <<"p","a","d","-","c","e","n","t","e","r">> \/ n = <<"p","a","d","_","c","e","n","t","e","r">> -> "pad_center"
      [] n = <<"p","a","d","-","l","e","f","t">> \/ n = <<"p","a","d","_","l","e","f","t">> -> "pad_left"
      [] n = <<"p","a","d","-","r","i","g","h","t">> \/ n = <<"p","a","d","_","r","i","g","h","t">> -> "pad_right"
      [] OTHER -> "_"

\* run_func once the name is lowercased; `nm` is the name as given
Dispatch(lowstr, nm, a, f) ==
    LET b == Builtin(lowstr)
    IN  CASE b = "os" -> Ok(StrV(os))
          [] b = "family" -> Ok(StrV(os_family))
          [] b = "bit" -> Ok(StrV(pointer_width))
          [] b = "arch" -> Ok(StrV(arch))
          [] b = "endian" -> Ok(StrV(endian))
          [] b = "is_file" -> all_are(a, "IsFile", f)
          [] b = "is_dir" -> all_are(a, "IsDir", f)
          [] b = "exists" -> all_are(a, "Exists", f)
          [] b = "with_filename" -> replace_name(a)
          [] b = "starts_with" -> starts_with(a)
          [] b = "ends_with" -> ends_with(a)
          [] b = "pad_center" -> pad(a, "All")
          [] b = "pad_left" -> pad(a, "Left")
          [] b = "pad_right" -> pad(a, "Right")
          [] b = "_" -> Err("function {} not found", nm)
          [] OTHER -> [tag |-> "NotModelled", op |-> b]

\* a slip: the match is on the name as given
run_func_exact(nm, a, f) == Dispatch(nm, nm, a, f)

run_func(nm, a, f) == Dispatch(to_lowercase(nm), nm, a, f)

(***************************************************************************)
(* Inputs of the function registry.                                        *)
(***************************************************************************)
PathTestNames == { <<"i","s","_","f","i","l","e">>, <<"I","s","-","F","i","l","e">>, <<"i","s","f","i","l","e">>, <<"i","s","_","d","i","r">>, <<"I","S","-","D","I","R">>, <<"i","s","D","i","r">>,
                   <<"e","x","i","s","t","s">>, <<"E","x","i","s","t","s">> }
PathArgLists == SeqsOf({StrV(s) : s \in Paths}, 0, MaxArgs)

PadNames == { <<"p","a","d","-","c","e","n","t","e","r">>, <<"P","a","d","_","C","e","n","t","e","r">>, <<"p","a","d","-","l","e","f","t">>, <<"P","A","D","_","L","E","F","T">>, <<"p","a","d","-","r","i","g","h","t">>, <<"p","a","d","_","r","i","g","h","t">> }
Subjects == { StrV(<<>>), StrV(<<"a","b">>), StrV(<<"wide","a">>), IntV(7) }
PadTokens == { StrV(<<>>), StrV(<<"comb">>), StrV(<<"+">>), StrV(<<"+","=">>), StrV(<<"wide">>) }
Targets == { IntV(i) : i \in (-MaxNeg)..MaxWidth } \cup { StrV(<<"a","a">>), StrV(<<"5">>) }
PadArgLists ==
    { <<>> }
    \cup { <<s>> : s \in Subjects }
    \cup { <<s, t>> : s \in Subjects, t \in PadTokens }
    \cup { <<s, t, l>> : s \in Subjects, t \in PadTokens, l \in Targets }
    \cup { <<s, t, l, StrV(<<"a","b">>)>> : s \in Subjects, t \in PadTokens, l \in Targets }

RenameNames == { <<"w","i","t","h","_","f","i","l","e","n","a","m","e">>, <<"W","i","t","h","-","F","i","l","e","N","a","m","e">>, <<"W","I","T","H","_","N","A","M","E">>, <<"w","i","t","h","-","n","a","m","e">> }
BasePaths == { StrV(<<>>), StrV(<<"f">>), StrV(<<"d","/","f">>), StrV(<<"/","f">>), StrV(<<"d","/">>), StrV(<<"/">>), StrV(<<"d","/",".",".">>) }
NewNames == { StrV(<<>>), StrV(<<"g">>), StrV(<<"/","g">>) }
RenameArgLists ==
    { <<>> }
    \cup { <<b>> : b \in BasePaths }
    \cup { <<b, n>> : b \in BasePaths, n \in NewNames }
    \cup { <<b, n, StrV(<<"h">>)>> : b \in BasePaths, n \in NewNames }

MatchNames == { <<"s","t","a","r","t","s","-","w","i","t","h">>, <<"S","t","a","r","t","s","_","W","i","t","h">>, <<"e","n","d","s","-","w","i","t","h">>, <<"E","N","D","S","_","W","I","T","H">> }
MatchSubjects == { StrV(<<>>), StrV(<<"a","b">>), StrV(<<"a","b","a">>), IntV(12) }
Candidates == { StrV(<<>>), StrV(<<"a">>), StrV(<<"A">>), StrV(<<"a","b">>), StrV(<<"b","a">>), StrV(<<"a","b","a","b">>), IntV(1) }
MatchArgLists ==
    { <<>> }
    \cup { <<s>> : s \in MatchSubjects }
    \cup { <<s, c>> : s \in MatchSubjects, c \in Candidates }
    \cup { <<s, c, d>> : s \in MatchSubjects, c \in Candidates, d \in Candidates }

InfoNames == { <<"o","s">>, <<"O","S">>, <<"f","a","m","i","l","y">>, <<"B","i","t">>, <<"a","r","c","h">>, <<"E","n","d","i","a","n">> }
UnknownNames == { <<"S","h","o","u","t">>, <<"i","s","_","F","i","l","e","_">>, <<"p","a","d">> }
InfoArgLists == { <<>>, <<StrV(<<"a","b">>)>> }

(***************************************************************************)
(* The function registry as a state machine.                               *)
(***************************************************************************)
\* the environment, between two calls: a path comes to name a file, a directory,
\* something else or nothing
FsChange ==
    /\ fres = None
    /\ \E s \in Paths, k \in Kinds :
            /\ fs[s] # k
            /\ fs' = [fs EXCEPT ![s] = k]
    /\ UNCHANGED <<name, args, fres>>

\* run_func(name, args): the interpreter makes one call at a time
RunFunc(nm, a) ==
    /\ name' = nm
    /\ args' = a
    /\ fres' = run_func(nm, a, fs)
    /\ UNCHANGED fs

CallPathTest ==
    /\ fres = None
    /\ \E nm \in PathTestNames, a \in PathArgLists : RunFunc(nm, a)
CallPad ==
    /\ fres = None
    /\ \E nm \in PadNames, a \in PadArgLists : RunFunc(nm, a)
CallRename ==
    /\ fres = None
    /\ \E nm \in RenameNames, a \in RenameArgLists : RunFunc(nm, a)
CallMatch ==
    /\ fres = None
    /\ \E nm \in MatchNames, a \in MatchArgLists : RunFunc(nm, a)
CallInfo ==
    /\ fres = None
    /\ \E nm \in InfoNames \cup UnknownNames, a \in InfoArgLists : RunFunc(nm, a)

\* the caller has taken the result
Taken ==
    /\ fres # None
    /\ name' = <<>>
    /\ args' = <<>>
    /\ fres' = None
    /\ UNCHANGED fs

FuncNext ==
    \/ FsChange /\ UNCHANGED evalVars
    \/ CallPathTest /\ UNCHANGED evalVars
    \/ CallPad /\ UNCHANGED evalVars
    \/ CallRename /\ UNCHANGED evalVars
    \/ CallMatch /\ UNCHANGED evalVars
    \/ CallInfo /\ UNCHANGED evalVars
    \/ Taken /\ UNCHANGED evalVars

FuncSpec == Init /\ [][FuncNext]_vars

(***************************************************************************)
(* What the directives mean, stated without the code's loops.              *)
(***************************************************************************)
IsFeature(c) ==
    to_lowercase(c.feature_name) \in { <<"f","e","a","t","u","r","e">>, <<"f","e","a","t">> }

\* the platform fact a key stands for; <<>> for a key that stands for none
KeyFact(c) ==
    LET n == to_lowercase(c.feature_name)
    IN  CASE n = <<"o","s">> -> os
          [] n = <<"b","i","t">> -> pointer_width
          [] n \in { <<"f","a","m","i","l","y">>, <<"p","l","a","t","f","o","r","m">> } -> os_family
          [] n = <<"a","r","c","h">> -> arch
          [] n = <<"e","n","d","i","a","n">> -> endian
          [] OTHER -> <<>>

IsPlatform(c) == KeyFact(c) # <<>>
Recognised(c) == IsFeature(c) \/ IsPlatform(c)
AllRecognised(cs) == \A i \in 1..Len(cs) : Recognised(cs[i])

LowValues(c) == [j \in 1..Len(c.feature_val) |-> to_lowercase(c.feature_val[j])]

\* the fact equals one of the values, letter case aside
FactMatches(c) ==
    \E j \in 1..Len(c.feature_val) :
        to_lowercase(c.feature_val[j]) = to_lowercase(KeyFact(c))

\* one of the values is an enabled feature, letter case aside
FeatureMatches(c, enabled) ==
    \E j \in 1..Len(c.feature_val) : \E k \in 1..Len(enabled) :
        to_lowercase(c.feature_val[j]) = to_lowercase(enabled[k])

Xor(a, b) == (a /\ ~b) \/ (~a /\ b)

\* the truth of one recognised clause
Truth(c, enabled) ==
    IF IsFeature(c)
    THEN IF enabled = <<>> THEN FALSE ELSE Xor(FeatureMatches(c, enabled), c.not_op)
    ELSE Xor(FactMatches(c), c.not_op)

\* the last n elements of s
LastN(s, n) == SubSeq(s, Len(s) - n + 1, Len(s))

\* the loop has visited a clause, and `pass` is that clause's outcome
Visited == pc \in {"loop", "done"} /\ idx > 1
Last == p[idx - 1]

(***************************************************************************)
(* C1: when process_feature has returned for clauses whose keys are all    *)
(* recognised, `feats` holds the lowercased form of every value of every   *)
(* feature/feat clause, whatever the clauses and the result are.           *)
(***************************************************************************)
C1_AllMentionedCollected ==
    (pc = "done" /\ AllRecognised(p)) =>
        \A i \in 1..Len(p) : IsFeature(p[i]) =>
            \A j \in 1..Len(p[i].feature_val) :
                to_lowercase(p[i].feature_val[j]) \in Range(feats)

\* a false platform clause comes first, the result is false, the values are there
C1_Witness ==
    /\ pc = "done"
    /\ Len(p) = 2
    /\ IsPlatform(p[1]) /\ ~Truth(p[1], opts)
    /\ IsFeature(p[2]) /\ Len(p[2].feature_val) = 2
    /\ ret = OkBool(FALSE)
    /\ <<"x">> \in Range(feats) /\ <<"z">> \in Range(feats)

(***************************************************************************)
(* C2: with no enabled feature, a feature/feat clause is false, negated or *)
(* not, so the result of a call with such a clause is false; its values    *)
(* are appended to `feats` all the same.                                   *)
(***************************************************************************)
C2_NoFeatureEnabled ==
    /\ (Visited /\ opts = <<>> /\ IsFeature(Last)) =>
            /\ pass = FALSE
            /\ ok = FALSE
            /\ Len(feats) >= Len(Last.feature_val)
            /\ LastN(feats, Len(Last.feature_val)) = LowValues(Last)
    /\ (pc = "done" /\ opts = <<>> /\ AllRecognised(p)
            /\ \E i \in 1..Len(p) : IsFeature(p[i])) => ret = OkBool(FALSE)

\* `not feature(X)` alone, nothing enabled: false, and x recorded
C2_Witness ==
    /\ pc = "done"
    /\ opts = <<>>
    /\ Len(p) = 1 /\ IsFeature(p[1]) /\ p[1].not_op
    /\ ret = OkBool(FALSE)
    /\ feats = <<<<"x">>>>

(***************************************************************************)
(* C3: with some feature enabled, a feature/feat clause is true exactly    *)
(* when (one of its values is an enabled feature, letter case aside) XOR   *)
(* (the clause is negated); the negation of the clause before plays no     *)
(* part.                                                                   *)
(***************************************************************************)
C3_FeatureClause ==
    (Visited /\ opts # <<>> /\ IsFeature(Last)) =>
        pass = Xor(FeatureMatches(Last, opts), Last.not_op)

\* after a negated clause, a plain feature clause that matches is true
C3_Witness ==
    /\ Visited /\ idx = 3
    /\ opts # <<>>
    /\ p[1].not_op /\ ~p[2].not_op
    /\ IsFeature(p[2]) /\ FeatureMatches(p[2], opts)
    /\ pass = TRUE

(***************************************************************************)
(* C4: for clauses whose keys are all recognised the result is the AND of  *)
(* the clauses' outcomes, the loop has gone through every clause (it does  *)
(* not stop at a false one), and no clause at all gives true.              *)
(***************************************************************************)
C4_AndOfAll ==
    (pc = "done" /\ AllRecognised(p)) =>
        /\ ret = OkBool(\A i \in 1..Len(p) : Truth(p[i], opts))
        /\ idx = Len(p) + 1
        /\ (p = <<>> => ret = OkBool(TRUE))

\* the first clause is false and the second, a feature clause, was still run
C4_Witness ==
    /\ pc = "done"
    /\ Len(p) = 2
    /\ ~Truth(p[1], opts) /\ IsPlatform(p[1])
    /\ IsFeature(p[2]) /\ Truth(p[2], opts)
    /\ pass = TRUE
    /\ ret = OkBool(FALSE)
    /\ idx = 3

(***************************************************************************)
(* C5: when some clause has a key that is not recognised, the call fails   *)
(* with the name of the first such key (lowercased, as it is matched),     *)
(* wherever the clause stands and whatever the clauses before it gave.     *)
(***************************************************************************)
FirstUnknown(cs) == CHOOSE i \in 1..Len(cs) :
    ~Recognised(cs[i]) /\ \A j \in 1..(i - 1) : Recognised(cs[j])

C5_UnknownKeyFails ==
    (pc = "done" /\ ~AllRecognised(p)) =>
        ret = Err("{}", to_lowercase(p[FirstUnknown(p)].feature_name))

\* the unknown key comes second, after a clause that was false
C5_Witness ==
    /\ pc = "done"
    /\ Len(p) = 2
    /\ Recognised(p[1]) /\ ~Truth(p[1], opts) /\ ok = FALSE
    /\ ~Recognised(p[2])
    /\ ret = Err("{}", <<"c","p","u">>)

(***************************************************************************)
(* C6: a platform clause is true exactly when (its fact equals one of the  *)
(* clause's values, letter case aside) XOR (the clause is negated), and    *)
(* running it leaves `feats` as it was.                                    *)
(***************************************************************************)
C6_PlatformClause ==
    [][(pc = "loop" /\ idx <= Len(p) /\ IsPlatform(p[idx])) =>
            /\ pass' = Xor(FactMatches(p[idx]), p[idx].not_op)
            /\ feats' = feats
            /\ idx' = idx + 1]_vars

\* a platform clause that is true by its second value, with `feats` not empty
C6_Witness ==
    /\ Visited
    /\ IsPlatform(Last) /\ ~Last.not_op
    /\ Len(Last.feature_val) = 2
    /\ to_lowercase(Last.feature_val[1]) # KeyFact(Last)
    /\ Last.feature_val[2] # KeyFact(Last)
    /\ pass = TRUE
    /\ feats # <<>>

(***************************************************************************)
(* What the built-in functions are called, letter case aside.              *)
(***************************************************************************)
Called == fres # None
LowName == to_lowercase(name)
IsFileCall == LowName \in { <<"i","s","_","f","i","l","e">>, <<"i","s","-","f","i","l","e">>, <<"i","s","f","i","l","e">> }
IsDirCall == LowName \in { <<"i","s","_","d","i","r">>, <<"i","s","-","d","i","r">>, <<"i","s","d","i","r">> }
ExistsCall == LowName = <<"e","x","i","s","t","s">>
IsPadCall == LowName \in { <<"p","a","d","-","c","e","n","t","e","r">>, <<"p","a","d","_","c","e","n","t","e","r">>, <<"p","a","d","-","l","e","f","t">>, <<"p","a","d","_","l","e","f","t">>,
                           <<"p","a","d","-","r","i","g","h","t">>, <<"p","a","d","_","r","i","g","h","t">> }

\* the path predicate of the call holds of what the text s names
Satisfies(s) ==
    LET kind == IF s \in DOMAIN fs THEN fs[s] ELSE "none"
    IN  \/ IsFileCall /\ kind = "file"
        \/ IsDirCall /\ kind = "dir"
        \/ ExistsCall /\ kind # "none"

Subject == to_string(args[1])
Token == to_string(args[2])

(***************************************************************************)
(* C7: run_func picks the built-in by the lowercased name: the name in     *)
(* lower case and in upper case give what the name as written gave; a name *)
(* that is no built-in fails with a message holding the name as written.   *)
(***************************************************************************)
C7_NameLetterCase ==
    Called =>
        IF Builtin(LowName) # "_"
        THEN /\ run_func(to_lowercase(name), args, fs) = fres
             /\ run_func(to_uppercase(name), args, fs) = fres
             /\ fres.tag # "Err" \/ fres.msg # "function {} not found"
        ELSE fres = Err("function {} not found", name)

\* "Is-File" on a file: the answer of is-file
C7_Witness ==
    /\ Called
    /\ name = <<"I","s","-","F","i","l","e">>
    /\ args = <<StrV(<<"f">>)>>
    /\ fres = Ok(IntV(1))

(***************************************************************************)
(* C8: is_file, is_dir and exists give Integer 1 exactly when there is an  *)
(* argument and every argument, as a path, satisfies the predicate in the  *)
(* file system as it is; otherwise Integer 0; never a failure.             *)
(***************************************************************************)
C8_PathPredicates ==
    (Called /\ (IsFileCall \/ IsDirCall \/ ExistsCall)) =>
        fres = Ok(IntV(IF args # <<>> /\ \A i \in 1..Len(args) : Satisfies(to_string(args[i]))
                       THEN 1 ELSE 0))

\* two arguments, a directory and something that is neither file nor directory: exists
C8_Witness ==
    /\ Called /\ ExistsCall
    /\ Len(args) = 2 /\ args[1] # args[2]
    /\ fs[<<"f">>] = "other" /\ fs[<<"d">>] = "dir"
    /\ fres = Ok(IntV(1))

(***************************************************************************)
(* C9, as claimed: the padding functions fail for any number of arguments  *)
(* other than three, and fail with "pad string cannot be empty" for a pad  *)
(* token of no width.                                                      *)
(***************************************************************************)
C9_ExactlyThree ==
    (Called /\ IsPadCall) =>
        /\ Len(args) # 3 => fres.tag \in {"Err", "Panic", "Abort"}
        /\ (Len(args) = 3 /\ width(Token) = 0) =>
                fres = Err("pad string cannot be empty", <<>>)

(***************************************************************************)
(* C9, amended: the padding functions fail with "requires three arguments" *)
(* for fewer than three arguments; with three or more, a pad token of no   *)
(* width fails with "pad string cannot be empty", and a token that has a   *)
(* width makes the call go on as with its first three arguments, with no   *)
(* failure reported.                                                       *)
(***************************************************************************)
C9_AtLeastThree ==
    (Called /\ IsPadCall) =>
        /\ Len(args) < 3 => fres = Err("requires three arguments", <<>>)
        /\ (Len(args) >= 3 /\ width(Token) = 0) =>
                fres = Err("pad string cannot be empty", <<>>)
        /\ (Len(args) >= 3 /\ width(Token) > 0) =>
                /\ fres.tag # "Err"
                /\ fres = run_func(name, SubSeq(args, 1, 3), fs)

\* a token that is not empty and has no width, with a fourth argument
C9_Witness ==
    /\ Called /\ IsPadCall
    /\ Len(args) = 4
    /\ Token = <<"comb">>
    /\ fres = Err("pad string cannot be empty", <<>>)

(***************************************************************************)
(* C10, as claimed: with three arguments and a pad token that has a width, *)
(* a target width (any integer, zero and negative ones too) of at most     *)
(* subject width + token width gives the subject back as it is.            *)
(***************************************************************************)
C10_SubjectUnchanged ==
    (Called /\ IsPadCall /\ Len(args) = 3 /\ width(Token) > 0
        /\ to_int(args[3]) <= width(Subject) + width(Token)) =>
            fres = Ok(StrV(Subject))

(***************************************************************************)
(* C11: with a pad token that has a width and a target width above subject *)
(* width + token width, count = (target - subject width) \div token width; *)
(* pad-left gives count tokens then the subject, pad-right the subject     *)
(* then count tokens, pad-center count - count \div 2 tokens, the subject, *)
(* count \div 2 tokens; the result is never wider than the target.         *)
(***************************************************************************)
\* n times the text s, one after the other
Times(s, n) == [i \in 1..(n * Len(s)) |-> s[((i - 1) % Len(s)) + 1]]
Target == to_int(args[3])
PadCount == (Target - width(Subject)) \div width(Token)
IsPadLeft == LowName \in { <<"p","a","d","-","l","e","f","t">>, <<"p","a","d","_","l","e","f","t">> }
IsPadRight == LowName \in { <<"p","a","d","-","r","i","g","h","t">>, <<"p","a","d","_","r","i","g","h","t">> }
IsPadCenter == LowName \in { <<"p","a","d","-","c","e","n","t","e","r">>, <<"p","a","d","_","c","e","n","t","e","r">> }

C11_PadCounts ==
    (Called /\ IsPadCall /\ Len(args) >= 3 /\ width(Token) > 0
        /\ Target > width(Subject) + width(Token)) =>
            /\ IsPadLeft => fres = Ok(StrV(Times(Token, PadCount) \o Subject))
            /\ IsPadRight => fres = Ok(StrV(Subject \o Times(Token, PadCount)))
            /\ IsPadCenter =>
                    fres = Ok(StrV(Times(Token, PadCount - PadCount \div 2) \o Subject
                                   \o Times(Token, PadCount \div 2)))
            /\ fres.tag = "Ok" /\ width(fres.val.s) <= Target

\* pad-center("ab", "+=", 9): three tokens, two of them on the left, 8 columns
C11_Witness ==
    /\ Called /\ IsPadCenter
    /\ args = <<StrV(<<"a","b">>), StrV(<<"+","=">>), IntV(9)>>
    /\ fres = Ok(StrV(<<"+","=","+","=","a","b","+","=">>))

(***************************************************************************)
(* with_filename / with_name.                                              *)
(***************************************************************************)
IsRenameCall == LowName \in { <<"w","i","t","h","_","f","i","l","e","n","a","m","e">>, <<"w","i","t","h","-","f","i","l","e","n","a","m","e">>, <<"w","i","t","h","_","n","a","m","e">>, <<"w","i","t","h","-","n","a","m","e">> }
Base == to_string(args[1])
NewName == to_string(args[2])
\* the text s without the separators at its end
RECURSIVE NoTrail(_)
NoTrail(s) == IF s # <<>> /\ s[Len(s)] = "/" THEN NoTrail(SubSeq(s, 1, Len(s) - 1)) ELSE s
\* the text s ends in a component that names something: d \o c, where d is
\* empty or ends in "/" and c is a name
SplitsAt(s, i) ==
    /\ i = 0 \/ s[i] = "/"
    /\ \A j \in (i + 1)..Len(s) : s[j] # "/"
    /\ SubSeq(s, i + 1, Len(s)) \notin { <<>>, <<".">>, <<".",".">> }
EndsInName(s) == \E i \in 0..Len(NoTrail(s)) : SplitsAt(NoTrail(s), i)
\* the base path with its final component replaced by the new name
Renamed ==
    LET t == NoTrail(Base)
        i == CHOOSE k \in 0..Len(t) : SplitsAt(t, k)
    IN  SubSeq(t, 1, i) \o NewName
ReplacesName == (EndsInName(Base) /\ ~is_absolute(NewName)) => fres = Ok(StrV(Renamed))

\* C12, as stated: with_filename fails with "new name undefined" for every
\* number of arguments but two, and with two it succeeds and returns the base
\* path with its final component replaced by the second argument.
C12_ExactlyTwo ==
    (Called /\ IsRenameCall) =>
        /\ Len(args) # 2 => fres = Err("new name undefined", <<>>)
        /\ Len(args) = 2 => fres.tag = "Ok" /\ ReplacesName

\* C12, amended: with no argument with_filename fails with "path undefined",
\* with one it fails with "new name undefined", with two or more it succeeds
\* (arguments after the second are ignored) and, for a base path that ends in
\* a file name and a relative new name, returns the base path with its final
\* component replaced by the second argument.
C12_AtLeastTwo ==
    (Called /\ IsRenameCall) =>
        /\ Len(args) = 0 => fres = Err("path undefined", <<>>)
        /\ Len(args) = 1 => fres = Err("new name undefined", <<>>)
        /\ Len(args) >= 2 => fres.tag = "Ok" /\ ReplacesName

\* with_name("d/f", "g", "h") = "d/g"
C12_Witness ==
    /\ Called /\ IsRenameCall
    /\ args = <<StrV(<<"d","/","f">>), StrV(<<"g">>), StrV(<<"h">>)>>
    /\ fres = Ok(StrV(<<"d","/","g">>))

(***************************************************************************)
(* C13: starts-with and ends-with return Integer 1 when given fewer than   *)
(* two arguments; with two or more they return 1 exactly when the subject  *)
(* has one of the other arguments as a case-sensitive prefix (suffix), and *)
(* 0 otherwise; an empty candidate always matches; they never fail.        *)
(***************************************************************************)
IsStartsCall == LowName \in { <<"s","t","a","r","t","s","-","w","i","t","h">>, <<"s","t","a","r","t","s","_","w","i","t","h">> }
IsEndsCall == LowName \in { <<"e","n","d","s","-","w","i","t","h">>, <<"e","n","d","s","_","w","i","t","h">> }
\* w followed by something is s; something followed by w is s
IsPrefix(w, s) == \E k \in 0..Len(s) : s = w \o SubSeq(s, k + 1, Len(s)) /\ Len(w) = k
IsSuffix(w, s) == \E k \in 0..Len(s) : s = SubSeq(s, 1, k) \o w /\ Len(w) = Len(s) - k
Candidate(i) == to_string(args[i])
Fits(i) == IF IsStartsCall THEN IsPrefix(Candidate(i), Subject) ELSE IsSuffix(Candidate(i), Subject)

C13_PrefixSuffix ==
    (Called /\ (IsStartsCall \/ IsEndsCall)) =>
        /\ fres.tag = "Ok"
        /\ Len(args) < 2 => fres = Ok(IntV(1))
        /\ Len(args) >= 2 =>
                /\ fres = Ok(IntV(IF \E i \in 2..Len(args) : Fits(i) THEN 1 ELSE 0))
                /\ (\E i \in 2..Len(args) : Candidate(i) = <<>>) => fres = Ok(IntV(1))

\* starts-with("ab", "A", "a") = 1: the first candidate differs in case only,
\* the second is a prefix
C13_Witness ==
    /\ Called /\ IsStartsCall
    /\ args = <<StrV(<<"a","b">>), StrV(<<"A">>), StrV(<<"a">>)>>
    /\ fres = Ok(IntV(1))

(***************************************************************************)
(* C14: across the calls that share `feats`, a call only appends: what was *)
(* there stays as a prefix, and what is added is the lowercased values of  *)
(* the feature clauses the call has processed, in clause and value order,  *)
(* duplicates kept. A call that fails on an unknown key leaves what the    *)
(* clauses before it added, and the clauses after it add nothing.          *)
(***************************************************************************)
\* what the step about to be taken adds: the values of the clause the loop is
\* at when that is a feature clause, nothing in every other step
Added ==
    IF pc = "loop" /\ idx <= Len(p) /\ IsFeature(p[idx]) THEN LowValues(p[idx]) ELSE <<>>
\* the values of the feature clauses among the first n clauses of the call
RECURSIVE Mentioned(_, _)
Mentioned(cs, n) ==
    IF n = 0 THEN <<>>
    ELSE Mentioned(cs, n - 1) \o (IF IsFeature(cs[n]) THEN LowValues(cs[n]) ELSE <<>>)
\* the clauses the call has processed: all before idx; the one at idx is the
\* failing clause once the call has failed
Processed == Mentioned(p, idx - 1)
EndsWithProcessed ==
    pc \in {"loop", "done"} =>
        /\ Len(feats) >= Len(Processed)
        /\ LastN(feats, Len(Processed)) = Processed
\* a call in progress or over has added nothing before its first clause, so
\* the contents at its start are what lies before the processed values
OnlyAppends == feats' = feats \o Added
LoopEndsAtFailure == (pc = "done" /\ ret.tag = "Err") => (pc' = "idle" /\ feats' = feats)

C14_AppendOnly == []EndsWithProcessed /\ [][OnlyAppends /\ LoopEndsAtFailure]_vars

\* a second call over feature(z, X), Cpu(z) after a first one over feature(z, X):
\* it fails at the second clause, and z, x are there twice
C14_Witness ==
    /\ pc = "done" /\ ret.tag = "Err"
    /\ Len(p) = 2 /\ idx = 2 /\ IsFeature(p[1])
    /\ feats = << <<"z">>, <<"x">>, <<"z">>, <<"x">> >>

====
